---- MODULE Spec2Model ----
(***************************************************************************)
(* Model of the fixed-step body simulation of Bevy_Code/src/bodies.rs:     *)
(* the systems clear_accelerations, sphere_repulsion, gravity and          *)
(* integrate, chained in FixedUpdate, and the host's transform propagation *)
(* (installed by DefaultPlugins in main.rs) that copies Transform into     *)
(* GlobalTransform between frames.                                         *)
(*                                                                         *)
(* Numbers.  An f32 is modelled as an exact rational <<n, d>> in lowest    *)
(* terms (d > 0), or one of the IEEE special values <<1, 0>> (+Infinity),  *)
(* <<-1, 0>> (-Infinity) and <<0, 0>> (NaN).  Rounding is not modelled;    *)
(* division by zero, Infinity and NaN propagation are.  A Vec3 is a triple *)
(* of such numbers.  Bodies start on one line through the origin; every    *)
(* force of the program acts along that line, so every length the systems  *)
(* take is the square root of a rational square and Sqrt is exact.         *)
(***************************************************************************)
EXTENDS Integers, Sequences, FiniteSets, TLC

\* ---------------------------------------------------------------- bounds
\* Number of bodies of the model (the program spawns NUM_BODIES of them).
NumBodies == 2
\* Fixed ticks explored from the start.
MaxTicks == 2
\* A tick starts only while every coordinate has a denominator of at most
\* MaxDen, so that the exact arithmetic of the tick stays within TLC's integers.
MaxDen == 10

Bodies == 1..NumBodies

\* ------------------------------------------------------------ f32 values
NaN == <<0, 0>>
PInf == <<1, 0>>
NInf == <<-1, 0>>
Zero == <<0, 1>>
One == <<1, 1>>

Abs(i) == IF i < 0 THEN -i ELSE i
Sign(i) == IF i < 0 THEN -1 ELSE IF i > 0 THEN 1 ELSE 0

RECURSIVE GCD(_, _)
GCD(a, b) == IF b = 0 THEN a ELSE GCD(b, a % b)

\* The value n/d in lowest terms; d = 0 gives Infinity, -Infinity or NaN.
Norm(n, d) ==
  IF d = 0 THEN <<Sign(n), 0>>
  ELSE LET g == GCD(Abs(n), Abs(d))
           s == Sign(d)
       IN <<(s * n) \div g, (s * d) \div g>>

IsNaN(a) == a = NaN
IsFinite(a) == a[2] # 0

Neg(a) == <<-a[1], a[2]>>

Add(a, b) ==
  IF IsNaN(a) \/ IsNaN(b) THEN NaN
  ELSE IF a[2] = 0 /\ b[2] = 0 THEN (IF a = b THEN a ELSE NaN)
  ELSE IF a[2] = 0 THEN a
  ELSE IF b[2] = 0 THEN b
  ELSE LET g == GCD(a[2], b[2])
           l == (a[2] \div g) * b[2]
       IN Norm(a[1] * (l \div a[2]) + b[1] * (l \div b[2]), l)

Sub(a, b) == Add(a, Neg(b))

Mul(a, b) ==
  IF a[2] = 0 \/ b[2] = 0 THEN <<Sign(a[1]) * Sign(b[1]), 0>>
  ELSE IF a[1] = 0 \/ b[1] = 0 THEN Zero
  ELSE LET g1 == GCD(Abs(a[1]), b[2])
           g2 == GCD(Abs(b[1]), a[2])
       IN <<(a[1] \div g1) * (b[1] \div g2), (a[2] \div g2) * (b[2] \div g1)>>

\* 1/a: 1/0 is +Infinity, 1/Infinity is 0.
Recip(a) ==
  IF IsNaN(a) THEN NaN
  ELSE IF a[2] = 0 THEN Zero
  ELSE IF a[1] = 0 THEN PInf
  ELSE <<Sign(a[1]) * a[2], Abs(a[1])>>

Div(a, b) == Mul(a, Recip(b))

\* Comparisons are false as soon as an operand is NaN.
LT(a, b) == LET s == Sub(a, b) IN (~IsNaN(a)) /\ (~IsNaN(b)) /\ s[1] < 0
GT(a, b) == LT(b, a)
LE(a, b) == (~IsNaN(a)) /\ (~IsNaN(b)) /\ ~LT(b, a)

\* FloatPow::squared and FloatPow::cubed.
Squared(a) == Mul(a, a)
Cubed(a) == Mul(Mul(a, a), a)

RECURSIVE NewtonSqrt(_, _)
NewtonSqrt(n, x) ==
  LET y == (x + n \div x) \div 2 IN IF y >= x THEN x ELSE NewtonSqrt(n, y)

ISqrt(n) == IF n < 2 THEN n ELSE NewtonSqrt(n, n)

Sqrt(a) ==
  IF IsNaN(a) \/ a[1] < 0 THEN NaN
  ELSE IF a[2] = 0 THEN PInf
  ELSE <<ISqrt(a[1]), ISqrt(a[2])>>

\* ------------------------------------------------------------------ Vec3
Vec3(x, y, z) == <<x, y, z>>
ZERO == <<Zero, Zero, Zero>>

VAdd(u, v) == <<Add(u[1], v[1]), Add(u[2], v[2]), Add(u[3], v[3])>>
VSub(u, v) == <<Sub(u[1], v[1]), Sub(u[2], v[2]), Sub(u[3], v[3])>>
VNeg(v) == <<Neg(v[1]), Neg(v[2]), Neg(v[3])>>
VScale(s, v) == <<Mul(s, v[1]), Mul(s, v[2]), Mul(s, v[3])>>
Dot(u, v) == Add(Add(Mul(u[1], v[1]), Mul(u[2], v[2])), Mul(u[3], v[3]))
Length(v) == Sqrt(Dot(v, v))
\* glam: self * self.length_recip(); the zero vector gives 0 * Infinity = NaN.
Normalize(v) == VScale(Recip(Length(v)), v)
VFinite(v) == IsFinite(v[1]) /\ IsFinite(v[2]) /\ IsFinite(v[3])

\* ------------------------------------------------------------- constants
GRAVITY == <<3, 1>>
REPULSION == <<25, 1>>
DAMPING == <<1, 200>>
FORCE_CUTOFF == <<15, 1>>
MIN_DISTANCE == <<1, 10>>

\* ---------------------------------------------------------------- inputs
\* Radii generate_bodies may draw (from 0.5..2.0).
RadiusSet == {<<1, 2>>, <<1, 1>>}
\* Coordinates along the common line, which the ticks bring bodies to: the
\* origin, and points 5, 20, 25, 40 and 45 apart.
PosSet == {<<0, 1>>, <<20, 1>>, <<25, 1>>, <<-20, 1>>}
\* Initial velocities along the line (from -0.5..0.5).
VelSet == {<<0, 1>>, <<2, 5>>}
\* Fixed timesteps, in seconds, the Time resource may hold.
DtSet == {<<1, 1>>, <<1, 2>>}

\* ----------------------------------------------------------------- state
VARIABLES
  mass,              \* Mass component of each body
  radius,            \* Radius component of each body
  acceleration,      \* Acceleration component of each body
  last_pos,          \* LastPos component of each body
  transform,         \* Transform.translation of each body
  global_transform,  \* GlobalTransform.translation() of each body
  dt,                \* time.delta_secs() inside FixedUpdate
  pc,                \* the next system of the FixedUpdate chain
  ticks              \* fixed ticks completed

vars == <<mass, radius, acceleration, last_pos, transform, global_transform, dt, pc, ticks>>

\* generate_bodies, followed by the start-up transform propagation.
Init ==
  /\ dt \in DtSet
  /\ radius \in [Bodies -> RadiusSet]
  /\ mass = [b \in Bodies |-> Mul(Cubed(radius[b]), <<1, 10>>)]
  /\ \E position \in [Bodies -> PosSet], vel \in [Bodies -> VelSet] :
       /\ transform = [b \in Bodies |-> Vec3(position[b], Zero, Zero)]
       /\ last_pos = [b \in Bodies |->
            VSub(Vec3(position[b], Zero, Zero), VScale(dt, Vec3(vel[b], Zero, Zero)))]
  /\ global_transform = transform
  /\ acceleration = [b \in Bodies |-> ZERO]
  /\ pc = "clear_accelerations"
  /\ ticks = 0

\* Every coordinate is NaN, infinite, or a fraction the next tick can work on.
Small(v) == \A k \in 1..3 : v[k][2] <= MaxDen
InRange == \A b \in Bodies :
  Small(transform[b]) /\ Small(last_pos[b]) /\ Small(global_transform[b])

\* --------------------------------------------------- clear_accelerations
\* Faulty variant: the accelerations are not reset.
clear_accelerations_keep ==
  /\ pc = "clear_accelerations"
  /\ ticks < MaxTicks
  /\ InRange
  /\ pc' = "sphere_repulsion"
  /\ UNCHANGED <<mass, radius, acceleration, last_pos, transform, global_transform, dt, ticks>>

clear_accelerations ==
  /\ pc = "clear_accelerations"
  /\ ticks < MaxTicks
  /\ InRange
  /\ acceleration' = [b \in Bodies |-> ZERO]
  /\ pc' = "sphere_repulsion"
  /\ UNCHANGED <<mass, radius, last_pos, transform, global_transform, dt, ticks>>

\* ------------------------------------------------------ sphere_repulsion
\* Faulty variant: the cutoff is applied to the distance scaled by the radii.
beyond_cutoff_scaled(force_direction, r_sum) ==
  GT(Div(Length(force_direction), r_sum), FORCE_CUTOFF)

\* Skip if bodies are far enough away.
beyond_cutoff(force_direction, r_sum) == GT(Length(force_direction), FORCE_CUTOFF)

force_magnitude(m, r_distance) == Div(Mul(REPULSION, m), Squared(r_distance))

\* Faulty variant: both magnitudes use the second body's mass.
repel_pair_same_mass(acc, i, j) ==
  LET force_direction == VSub(global_transform[j], global_transform[i])
      r_sum == Add(radius[i], radius[j])
      r_distance == Div(Length(force_direction), r_sum)
      force_magnitude_1 == force_magnitude(mass[j], r_distance)
      force_magnitude_2 == force_magnitude(mass[j], r_distance)
  IN IF beyond_cutoff(force_direction, r_sum) THEN acc
     ELSE [acc EXCEPT
             ![i] = VSub(@, VScale(force_magnitude_1, Normalize(force_direction))),
             ![j] = VAdd(@, VScale(force_magnitude_2, Normalize(force_direction)))]

\* The body of the loop for the pair (i, j), on the accelerations acc.
repel_pair(acc, i, j) ==
  LET force_direction == VSub(global_transform[j], global_transform[i])
      r_sum == Add(radius[i], radius[j])
      r_distance == Div(Length(force_direction), r_sum)
      force_magnitude_1 == force_magnitude(mass[j], r_distance)
      force_magnitude_2 == force_magnitude(mass[i], r_distance)
  IN IF beyond_cutoff(force_direction, r_sum) THEN acc
     ELSE [acc EXCEPT
             ![i] = VSub(@, VScale(force_magnitude_1, Normalize(force_direction))),
             ![j] = VAdd(@, VScale(force_magnitude_2, Normalize(force_direction)))]

\* iter_combinations_mut: every pair i < j once, in order.
RECURSIVE repel_from(_, _, _)
repel_from(acc, i, j) ==
  IF i >= NumBodies THEN acc
  ELSE IF j > NumBodies THEN repel_from(acc, i + 1, i + 2)
  ELSE repel_from(repel_pair(acc, i, j), i, j + 1)

sphere_repulsion ==
  /\ pc = "sphere_repulsion"
  /\ acceleration' = repel_from(acceleration, 1, 2)
  /\ pc' = "gravity"
  /\ UNCHANGED <<mass, radius, last_pos, transform, global_transform, dt, ticks>>

\* ---------------------------------------------------------------- gravity
pull(b, acc) ==
  LET distance_from_center == Length(global_transform[b])
      force_magnitude_g == Add(Mul(GRAVITY, mass[b]),
                               Squared(Div(distance_from_center, <<10, 1>>)))
      force_direction == VNeg(Normalize(global_transform[b]))
  IN IF LT(distance_from_center, MIN_DISTANCE) THEN acc
     ELSE VAdd(acc, VScale(force_magnitude_g, force_direction))

\* Faulty variant: the pull is also applied to the position.
gravity_moving ==
  /\ pc = "gravity"
  /\ acceleration' = [b \in Bodies |-> pull(b, acceleration[b])]
  /\ transform' = [b \in Bodies |-> pull(b, transform[b])]
  /\ pc' = "integrate"
  /\ UNCHANGED <<mass, radius, last_pos, global_transform, dt, ticks>>

gravity ==
  /\ pc = "gravity"
  /\ acceleration' = [b \in Bodies |-> pull(b, acceleration[b])]
  /\ pc' = "integrate"
  /\ UNCHANGED <<mass, radius, last_pos, transform, global_transform, dt, ticks>>

\* -------------------------------------------------------------- integrate
\* Faulty variant: the damping has the wrong sign.
new_pos_gaining(current_pos, last, acc, dt_sq) ==
  VAdd(VSub(VScale(Add(<<2, 1>>, DAMPING), current_pos),
            VScale(Add(One, DAMPING), last)),
       VScale(dt_sq, acc))

\* Faulty variant: the acceleration is scaled by dt instead of dt squared.
new_pos_dt(current_pos, last, acc, dt_sq) ==
  VAdd(VSub(VScale(Sub(<<2, 1>>, DAMPING), current_pos),
            VScale(Sub(One, DAMPING), last)),
       VScale(dt, acc))

new_pos(current_pos, last, acc, dt_sq) ==
  VAdd(VSub(VScale(Sub(<<2, 1>>, DAMPING), current_pos),
            VScale(Sub(One, DAMPING), last)),
       VScale(dt_sq, acc))

\* Faulty variant: LastPos is written after the position, from the new value.
integrate_late_capture ==
  /\ pc = "integrate"
  /\ LET dt_sq == Mul(dt, dt) IN
       transform' = [b \in Bodies |->
         new_pos(transform[b], last_pos[b], acceleration[b], dt_sq)]
  /\ last_pos' = transform'
  /\ pc' = "clear_accelerations"
  /\ ticks' = ticks + 1
  /\ UNCHANGED <<mass, radius, acceleration, global_transform, dt>>

integrate ==
  /\ pc = "integrate"
  /\ LET dt_sq == Mul(dt, dt) IN
       transform' = [b \in Bodies |->
         new_pos(transform[b], last_pos[b], acceleration[b], dt_sq)]
  /\ last_pos' = transform
  /\ pc' = "clear_accelerations"
  /\ ticks' = ticks + 1
  /\ UNCHANGED <<mass, radius, acceleration, global_transform, dt>>

\* ------------------------------------------------------------------- host
\* Transform propagation of the host's frame: it runs between fixed ticks,
\* after zero, one or several of them.
propagate_transforms ==
  /\ pc = "clear_accelerations"
  /\ global_transform' = transform
  /\ UNCHANGED <<mass, radius, acceleration, last_pos, transform, dt, pc, ticks>>

Next ==
  \/ clear_accelerations
  \/ sphere_repulsion
  \/ gravity
  \/ integrate
  \/ propagate_transforms

Spec == Init /\ [][Next]_vars

\* Sanity: the chain position is one of the four systems, and the lengths the
\* systems take are exact (bodies stay on one line through the origin).
TypeOK ==
  /\ pc \in {"clear_accelerations", "sphere_repulsion", "gravity", "integrate"}
  /\ ticks \in 0..MaxTicks
  /\ pc \in {"sphere_repulsion", "gravity"} => \A a, b \in Bodies :
       LET v == VSub(global_transform[b], global_transform[a])
       IN Squared(Length(v)) = Dot(v, v)
         /\ Squared(Length(global_transform[b])) = Dot(global_transform[b], global_transform[b])

\* ============================================================ properties
AllFinite == \A b \in Bodies :
  VFinite(acceleration[b]) /\ VFinite(transform[b]) /\ VFinite(last_pos[b])

\* distance and scaledDistance of the pair (a, b), and what a receives from b.
Distance(a, b) == Length(VSub(global_transform[b], global_transform[a]))
ScaledDistance(a, b) == Div(Distance(a, b), Add(radius[a], radius[b]))
Received(a, b) ==
  VNeg(VScale(Div(Mul(REPULSION, mass[b]), Mul(ScaledDistance(a, b), ScaledDistance(a, b))),
              Normalize(VSub(global_transform[b], global_transform[a]))))

\* Sum over the bodies o >= k other than a of what a receives from o, a pair
\* being left out when its scaled distance (scaled = TRUE) or its distance
\* (scaled = FALSE) exceeds FORCE_CUTOFF.
RECURSIVE PairwiseSum(_, _, _)
PairwiseSum(a, k, scaled) ==
  IF k > NumBodies THEN ZERO
  ELSE IF k = a THEN PairwiseSum(a, k + 1, scaled)
  ELSE LET d == IF scaled THEN ScaledDistance(a, k) ELSE Distance(a, k)
       IN VAdd(IF GT(d, FORCE_CUTOFF) THEN ZERO ELSE Received(a, k),
               PairwiseSum(a, k + 1, scaled))

\* The central contribution to body b.
CentralTerm(b) ==
  LET d == Length(global_transform[b])
  IN IF LT(d, MIN_DISTANCE) THEN ZERO
     ELSE VNeg(VScale(Add(Mul(GRAVITY, mass[b]), Squared(Div(d, <<10, 1>>))),
                      Normalize(global_transform[b])))

\* C1: starting from finite positions, the first tick leaves no NaN or
\* Infinity in any body's acceleration or position.
C1_NoNaN ==
  (ticks = 0 \/ (ticks = 1 /\ pc = "clear_accelerations"))
    => \A b \in Bodies : VFinite(acceleration[b]) /\ VFinite(transform[b])

\* C2: between ticks, once a tick has completed, every body's acceleration is
\* the zero vector (stated for runs in which every value is finite).
C2_ZeroAfterTick ==
  (pc = "clear_accelerations" /\ ticks >= 1 /\ AllFinite)
    => \A b \in Bodies : acceleration[b] = ZERO

\* C3: the systems run in the order clear_accelerations, sphere_repulsion,
\* gravity, integrate; accumulation begins from zero accelerations, and the
\* acceleration integrate consumes is the sum of this tick's pairwise and
\* central contributions only.
C3_Order ==
  /\ (pc = "clear_accelerations" /\ pc' # pc) => pc' = "sphere_repulsion"
  /\ pc = "sphere_repulsion" => pc' = "gravity"
  /\ pc = "gravity" => pc' = "integrate"
  /\ pc = "integrate" => pc' = "clear_accelerations"
C3_Fresh ==
  /\ pc = "sphere_repulsion" => \A b \in Bodies : acceleration[b] = ZERO
  /\ pc = "integrate" => \A b \in Bodies :
       acceleration[b] = VAdd(PairwiseSum(b, 1, FALSE), CentralTerm(b))
C3_FreshAccumulation == [](C3_Fresh) /\ [][C3_Order]_vars
C3_Witness ==
  /\ pc = "integrate" /\ ticks >= 1
  /\ \A b \in Bodies : acceleration[b] # ZERO /\ VFinite(acceleration[b])

\* C4 as claimed: after sphere_repulsion a pair has been skipped exactly when
\* its scaled distance exceeds FORCE_CUTOFF.
C4_ScaledCutoff ==
  pc = "gravity" => \A b \in Bodies : acceleration[b] = PairwiseSum(b, 1, TRUE)
\* C4 as amended: after sphere_repulsion a pair has been skipped exactly when
\* its distance exceeds FORCE_CUTOFF, and has had the repulsion applied otherwise.
C4_DistanceCutoff ==
  pc = "gravity" => \A b \in Bodies : acceleration[b] = PairwiseSum(b, 1, FALSE)
C4_Witness ==
  /\ pc = "gravity"
  /\ \E a, b \in Bodies :
       /\ a # b
       /\ GT(Distance(a, b), FORCE_CUTOFF)
       /\ LE(ScaledDistance(a, b), FORCE_CUTOFF)
       /\ acceleration[a] = ZERO

\* An isolated pair: within the cutoff of each other at non-zero distance,
\* every other body beyond the cutoff of both.
IsolatedPair(a, b) ==
  /\ a # b
  /\ LE(Distance(a, b), FORCE_CUTOFF)
  /\ Distance(a, b) # Zero
  /\ \A o \in Bodies \ {a, b} :
       GT(Distance(a, o), FORCE_CUTOFF) /\ GT(Distance(b, o), FORCE_CUTOFF)

\* C5: after one pass of sphere_repulsion from zero accelerations, an isolated
\* pair A, B has acc_A = -(REPULSION * mass_B / scaledDistance^2) * normalize(delta),
\* acc_B the mirrored opposite scaled by mass_A, and acc_A * mass_A = -(acc_B * mass_B).
C5_ThirdLaw ==
  pc = "gravity" => \A a, b \in Bodies : IsolatedPair(a, b) =>
    /\ acceleration[a] = Received(a, b)
    /\ acceleration[b] = Received(b, a)
    /\ Received(b, a) =
         VScale(Div(Mul(REPULSION, mass[a]), Mul(ScaledDistance(a, b), ScaledDistance(a, b))),
                Normalize(VSub(global_transform[b], global_transform[a])))
    /\ VScale(mass[a], acceleration[a]) = VNeg(VScale(mass[b], acceleration[b]))
C5_Witness ==
  /\ pc = "gravity"
  /\ \E a, b \in Bodies :
       /\ IsolatedPair(a, b)
       /\ mass[a] # mass[b]
       /\ acceleration[a] # ZERO /\ VFinite(acceleration[a])
       /\ acceleration[b] # ZERO /\ VFinite(acceleration[b])

\* C6: clear_accelerations, sphere_repulsion and gravity leave position,
\* previousPosition, mass and radius as they were; only integrate changes
\* position and previousPosition; no step changes mass, radius or the bodies.
C6_Frame ==
  /\ mass' = mass /\ radius' = radius
  /\ DOMAIN transform' = Bodies /\ DOMAIN last_pos' = Bodies
  /\ DOMAIN acceleration' = Bodies /\ DOMAIN global_transform' = Bodies
  /\ pc # "integrate" => (transform' = transform /\ last_pos' = last_pos)
  /\ (pc # "integrate" /\ pc' # pc) => global_transform' = global_transform
C6_ForceStagesFrame == [][C6_Frame]_vars
C6_Witness ==
  /\ pc = "integrate" /\ ticks >= 1
  /\ \E b \in Bodies : acceleration[b] # ZERO /\ transform[b] # last_pos[b]

\* C7: integrate leaves in previousPosition the position the body had before
\* the step, and nothing else writes previousPosition.
C7_Capture ==
  /\ pc = "integrate" => last_pos' = transform
  /\ pc # "integrate" => last_pos' = last_pos
C7_PreviousPosition == [][C7_Capture]_vars
C7_Witness ==
  /\ pc = "clear_accelerations" /\ ticks >= 2
  /\ \E b \in Bodies : VFinite(transform[b]) /\ last_pos[b] # transform[b]

\* The kinetic-energy proxy, for positions t and previous positions l.
KE(t, l) == Dot(VSub(t, l), VSub(t, l))
RECURSIVE EnergyFrom(_, _, _)
EnergyFrom(k, t, l) ==
  IF k > NumBodies THEN Zero ELSE Add(KE(t[k], l[k]), EnergyFrom(k + 1, t, l))
Energy(t, l) == EnergyFrom(1, t, l)

\* C8 as claimed: the kinetic-energy proxy does not increase from one tick to
\* the next (stated for ticks on finite values whose outcome is in range).
C8_Monotone ==
  (pc = "integrate" /\ AllFinite /\ \A b \in Bodies : Small(transform'[b]))
    => LE(Energy(transform', last_pos'), Energy(transform, last_pos))
C8_EnergyNonIncreasing == [][C8_Monotone]_vars
\* C8 as amended: across a tick, the term |position - previousPosition|^2 of
\* every body whose accumulated acceleration is zero is multiplied by
\* (1 - DAMPING)^2, so it does not increase.
C8_Coast ==
  pc = "integrate" => \A b \in Bodies : acceleration[b] = ZERO =>
    /\ KE(transform'[b], last_pos'[b]) =
         Mul(Squared(Sub(One, DAMPING)), KE(transform[b], last_pos[b]))
    /\ (VFinite(transform[b]) /\ VFinite(last_pos[b])) =>
         LE(KE(transform'[b], last_pos'[b]), KE(transform[b], last_pos[b]))
C8_DampedCoasting == [][C8_Coast]_vars
C8_Witness ==
  /\ pc = "clear_accelerations" /\ ticks >= 1
  /\ \E b \in Bodies :
       /\ acceleration[b] = ZERO
       /\ VFinite(transform[b])
       /\ transform[b] # last_pos[b]

\* C9: integrate sets position to (2 - damping) * position
\* - (1 - damping) * previousPosition + acceleration * dt^2, which for a body
\* with previousPosition = position is position + acceleration * dt^2,
\* whatever the damping.
Verlet(damping, position, previousPosition, acc) ==
  VAdd(VSub(VScale(Sub(<<2, 1>>, damping), position),
            VScale(Sub(One, damping), previousPosition)),
       VScale(Mul(dt, dt), acc))
DampingSet == {Zero, DAMPING, <<1, 2>>}
C9_Step ==
  pc = "integrate" => \A b \in Bodies :
    /\ transform'[b] = Verlet(DAMPING, transform[b], last_pos[b], acceleration[b])
    /\ last_pos[b] = transform[b] =>
         /\ transform'[b] = VAdd(transform[b], VScale(Mul(dt, dt), acceleration[b]))
         /\ \A d \in DampingSet :
              Verlet(d, transform[b], last_pos[b], acceleration[b]) = transform'[b]
C9_VerletFormula == [][C9_Step]_vars
C9_Witness ==
  /\ pc = "clear_accelerations" /\ ticks >= 1 /\ dt # One
  /\ \E b \in Bodies :
       /\ acceleration[b] # ZERO /\ VFinite(acceleration[b])
       /\ transform[b] = VAdd(last_pos[b], VScale(Mul(dt, dt), acceleration[b]))

\* C10: the positions sphere_repulsion and gravity read are the positions
\* integrate last wrote.
C10_ReadsLatest ==
  pc \in {"sphere_repulsion", "gravity"} => global_transform = transform

====
